---- MODULE Spec2Model ----
(***************************************************************************)
(* Model of map_thicket_agc/feature_selection.py: score_model, ranking,    *)
(* forward_selection and fcr, and of the selection of the final model in   *)
(* scripts/fit_agc_model.py.                                               *)
(*                                                                         *)
(* Floating point values are modelled exactly:                             *)
(*   [kind |-> "nan"]              numpy nan                               *)
(*   [kind |-> "ninf"]             -numpy.inf                              *)
(*   [kind |-> "nsqrt", q |-> r]   the real number -sqrt(r), r a rational  *)
(*   [kind |-> "num",   q |-> r]   the rational r                          *)
(* Rationals are pairs <<n, d>> with n >= 0, d > 0, in lowest terms.       *)
(* An optional argument is <<>> (None) or <<v>>.                           *)
(***************************************************************************)
EXTENDS Integers, Sequences, FiniteSets, TLC

\* ------------------------------------------------------------------ bounds
MaxCols == 3
MaxRows == 3
MaxSqErr == 1
MaxDcov == 1
MaxAbsErr == 2

\* ------------------------------------------------------- exact arithmetic
RECURSIVE Gcd(_, _)
Gcd(a, b) == IF b = 0 THEN a ELSE Gcd(b, a % b)

Rat(n, d) == LET g == Gcd(n, d) IN IF g = 0 THEN <<0, 1>> ELSE <<n \div g, d \div g>>
RAdd(a, b) == Rat(a[1] * b[2] + b[1] * a[2], a[2] * b[2])
RDivInt(a, k) == Rat(a[1], a[2] * k)
RLt(a, b) == a[1] * b[2] < b[1] * a[2]

RECURSIVE RSum(_)
RSum(s) == IF s = <<>> THEN <<0, 1>> ELSE RAdd(Head(s), RSum(Tail(s)))

NaN == [kind |-> "nan"]
NegInf == [kind |-> "ninf"]
NegSqrt(r) == [kind |-> "nsqrt", q |-> r]
Num(r) == [kind |-> "num", q |-> r]

IsNaN(x) == x.kind = "nan"

\* a > b for floats: any comparison with nan is False.
Gt(a, b) ==
    IF IsNaN(a) \/ IsNaN(b) THEN FALSE
    ELSE IF b.kind = "ninf" THEN a.kind # "ninf"
    ELSE IF a.kind = "ninf" THEN FALSE
    ELSE IF a.kind = "nsqrt" THEN RLt(a.q, b.q)
    ELSE RLt(b.q, a.q)

NoneVal == <<>>
Some(v) == <<v>>
IsNone(o) == o = <<>>
Val(o) == o[1]

SeqOfSet(S) == CHOOSE s \in [1..Cardinality(S) -> S] :
                   /\ \A i, j \in 1..Cardinality(S) : i < j => s[i] < s[j]
                   /\ {s[i] : i \in 1..Cardinality(S)} = S

\* ------------------------------------------------ k-fold cross validation
\* cross_validate(..., cv=k) on a regressor splits with KFold(k), no shuffle:
\* contiguous folds, the first n % k folds hold one row more.
FoldSize(n, k, f) == (n \div k) + (IF f <= n % k THEN 1 ELSE 0)

RECURSIVE FoldStart(_, _, _)
FoldStart(n, k, f) == IF f = 1 THEN 1 ELSE FoldStart(n, k, f - 1) + FoldSize(n, k, f - 1)

FoldRows(n, k, f) == FoldStart(n, k, f) .. (FoldStart(n, k, f) + FoldSize(n, k, f) - 1)

\* (a default of five folds, cross_validate's own, for an unspecified cv)
EffectiveCv_Five(ny, cv_arg) == IF IsNone(cv_arg) THEN 5 ELSE Val(cv_arg)

\* lines 251-252: cv defaults to len(y)
EffectiveCv(ny, cv_arg) == IF IsNone(cv_arg) THEN ny ELSE Val(cv_arg)

\* What the estimator and the data decide in one cross validation of n rows
\* in k folds: the squared held-out error of every row, the folds whose fit
\* raised (scored nan by cross_validate), the user score of every fold.
CvOutcomes(n, k) ==
    [sq_err : [1..n -> 0..MaxSqErr], failed : SUBSET (1..k), user : [1..k -> 0..1]]

NoOutcome == [sq_err |-> <<>>, failed |-> {}, user |-> <<>>]

\* the outcomes a call can meet: none is consulted when the call is rejected
OutcomesFor(nx, ny, cv_arg) ==
    LET k == EffectiveCv(ny, cv_arg)
    IN  IF nx = ny /\ k >= 2 /\ k <= nx THEN CvOutcomes(nx, k) ELSE {NoOutcome}

\* the outcomes drawn for the repeated calls of ranking and forward_selection:
\* every row with the same squared error, or the last row alone in error;
\* no fit raising, or the first fold's; every fold with the same user score.
TrialSqErrs(n) ==
    {[r \in 1..n |-> e] : e \in 0..MaxSqErr}
        \cup {[r \in 1..n |-> IF r = n THEN MaxSqErr ELSE 0]}

TrialOutcomes(nx, ny, cv_arg) ==
    LET k == EffectiveCv(ny, cv_arg)
    IN  IF nx = ny /\ k >= 2 /\ k <= nx
        THEN {[sq_err |-> v, failed |-> F, user |-> [f \in 1..k |-> u]] :
                 v \in TrialSqErrs(nx), F \in {{}, {1}}, u \in 0..1}
        ELSE {NoOutcome}

SumSqErr(out, rows) == RSum([i \in 1..Cardinality(rows) |-> <<out.sq_err[SeqOfSet(rows)[i]], 1>>])

\* the '-RMSE' scorer of one fold: -sqrt(mean_squared_error(meas, pred))
FoldNegRmse(out, n, k, f) ==
    IF f \in out.failed THEN NaN
    ELSE NegSqrt(RDivInt(SumSqErr(out, FoldRows(n, k, f)), FoldSize(n, k, f)))

FoldUser(out, f) == IF f \in out.failed THEN NaN ELSE Num(<<out.user[f], 1>>)

\* r2_score(y, predicted) over the stacked predictions, kept as its squared error sum
R2Stacked(out, n) == [kind |-> "r2", sse |-> SumSqErr(out, 1..n)]

\* (a scoring dict that holds the user scorer whether or not one was given)
Scoring_AlwaysUser(score_fn) == {"-RMSE", "user"}

\* lines 254-259: the scoring dict holds '-RMSE', and 'user' when a score
\* function is given
Scoring(score_fn) == IF IsNone(score_fn) THEN {"-RMSE"} ELSE {"-RMSE", "user"}

\* the rows in the order cross validation tests them, fold after fold
RECURSIVE TestIndices(_, _, _)
TestIndices(n, k, f) ==
    IF f = 0 THEN <<>> ELSE TestIndices(n, k, f - 1) \o SeqOfSet(FoldRows(n, k, f))

\* cross_val_predict: the prediction of every row, made by the fold that holds
\* it out, put back at the position of the row (a prediction is named by its row)
cross_val_predict(n, k) ==
    LET tested == TestIndices(n, k, k)
        inv == [r \in 1..n |-> CHOOSE i \in 1..Len(tested) : tested[i] = r]
    IN  [r \in 1..n |-> tested[inv[r]]]

\* score_model: the result record, or the exception raised. cross_validate
\* scores a fold whose fit raised as nan; cross_val_predict (line 271) lets the
\* exception of such a fit through.
score_model(nx, ny, cv_arg, score_fn, find_predicted, out) ==
    LET cv == EffectiveCv(ny, cv_arg)
    IN  IF nx # ny THEN [raised |-> "ValueError: inconsistent numbers of samples"]
        ELSE IF cv <= 1 THEN [raised |-> "ValueError: n_splits must be 2 or more"]
        ELSE IF cv > nx THEN [raised |-> "ValueError: n_splits greater than the number of samples"]
        ELSE LET user == [f \in {"test_" \o s : s \in Scoring(score_fn)} |->
                              IF f = "test_-RMSE"
                              THEN [k \in 1..cv |-> FoldNegRmse(out, nx, cv, k)]
                              ELSE [k \in 1..cv |-> FoldUser(out, k)]]
             IN  IF find_predicted /\ out.failed # {}
                 THEN [raised |-> "the estimator's exception, from cross_val_predict"]
                 ELSE IF find_predicted
                 THEN [raised |-> "none", cv |-> cv,
                       scores |-> user @@ [f \in {"R2_stacked"} |-> R2Stacked(out, nx)],
                       predicted |-> Some(cross_val_predict(nx, cv))]
                 ELSE [raised |-> "none", cv |-> cv, scores |-> user, predicted |-> NoneVal]

Squares(arr) == [i \in 1..Len(arr) |-> arr[i].q]
HasNaN(arr) == \E i \in 1..Len(arr) : IsNaN(arr[i])

\* -np.sqrt((scores['test_-RMSE'] ** 2).mean())
NegRmseAggregate(arr) ==
    IF HasNaN(arr) THEN NaN ELSE NegSqrt(RDivInt(RSum(Squares(arr)), Len(arr)))

\* scores['test_user'].mean()
UserAggregate(arr) ==
    IF HasNaN(arr) THEN NaN ELSE Num(RDivInt(RSum(Squares(arr)), Len(arr)))

AggregateScore(scores, score_fn) ==
    IF IsNone(score_fn) THEN NegRmseAggregate(scores["test_-RMSE"])
    ELSE UserAggregate(scores["test_user"])

\* ------------------------------------------------------------------ state
VARIABLES
    op, pc,
    feat_df, nrows, y_len, max_num_feats_arg, cv, score_fn, find_predicted,
    max_num_feats,
    selected_feats_df, selected_scores, available_feats_df,
    best_score, best_feat, best_key, for_pos, trials, n_score_calls,
    feat_scores,
    labels, dy, label_pos, selected_feats, cluster_scores,
    ret, err, log, cv_out,
    completed, results,
    selected_loocv_scores, best_model_idx, best_multivariate_model

args == <<feat_df, nrows, y_len, max_num_feats_arg, cv, score_fn, find_predicted>>
fs_locals == <<max_num_feats, selected_feats_df, selected_scores, available_feats_df,
               best_score, best_feat, best_key, for_pos, trials, n_score_calls>>
rank_locals == <<feat_scores>>
fcr_locals == <<labels, dy, label_pos, selected_feats, cluster_scores>>
par_locals == <<completed, results>>
pipe_locals == <<selected_loocv_scores, best_model_idx, best_multivariate_model>>
vars == <<op, pc, args, fs_locals, rank_locals, fcr_locals, ret, err, log, cv_out,
          par_locals, pipe_locals>>

ColNames == <<"A", "B", "C", "D", "E">>
Columns(n) == SubSeq(ColNames, 1, n)
\* the values of column key in a table of n rows: a different one in every row
ColVec(key, n) == [r \in 1..n |-> <<key, r>>]
\* the values of a column that holds the same value in every row
ConstVec(key, n) == [r \in 1..n |-> <<key, 0>>]
DataFrame(keys, n) == [i \in 1..Len(keys) |-> <<keys[i], ColVec(keys[i], n)>>]
Keys(df) == [i \in 1..Len(df) |-> df[i][1]]
KeySet(df) == {df[i][1] : i \in 1..Len(df)}

OptBool == {NoneVal, Some("user")}

InitLocals ==
    /\ max_num_feats = max_num_feats_arg
    /\ selected_feats_df = <<>> /\ selected_scores = <<>> /\ available_feats_df = <<>>
    /\ best_score = NegInf /\ best_feat = <<>> /\ best_key = ""
    /\ for_pos = 0 /\ trials = <<>> /\ n_score_calls = 0
    /\ feat_scores = <<>>
    /\ labels = <<>> /\ dy = <<>> /\ label_pos = 0
    /\ selected_feats = <<>> /\ cluster_scores = <<>>
    /\ ret = NoneVal /\ err = "none" /\ log = <<>> /\ cv_out = NoOutcome
    /\ completed = <<>> /\ results = <<>>
    /\ selected_loocv_scores = <<>> /\ best_model_idx = NoneVal
    /\ best_multivariate_model = NoneVal

\* ------------------------------------------------------------ score_model
InitScore ==
    /\ op = "score_model" /\ pc = "call"
    /\ feat_df = DataFrame(Columns(1), 0)
    /\ nrows \in 0..MaxRows
    /\ y_len \in 0..MaxRows
    /\ max_num_feats_arg = NoneVal
    /\ cv \in {NoneVal} \cup {Some(k) : k \in 0..(MaxRows + 1)}
    /\ score_fn \in OptBool
    /\ find_predicted \in BOOLEAN
    /\ InitLocals

\* one call of score_model(feat_df, y, model, score_fn, cv, find_predicted)
ScoreModelCall ==
    /\ op = "score_model" /\ pc = "call"
    /\ \E out \in OutcomesFor(nrows, y_len, cv) :
         LET r == score_model(nrows, y_len, cv, score_fn, find_predicted, out)
         IN  IF r.raised # "none"
             THEN /\ pc' = "failed" /\ err' = r.raised
                  /\ cv_out' = out
                  /\ UNCHANGED ret
             ELSE /\ pc' = "done"
                  /\ ret' = Some([scores |-> r.scores, predicted |-> r.predicted])
                  /\ cv_out' = out
                  /\ UNCHANGED err
    /\ UNCHANGED <<par_locals, pipe_locals, op, args, fs_locals, rank_locals, fcr_locals, log>>

NextScore == ScoreModelCall
SpecScore == InitScore /\ [][NextScore]_vars

\* ---------------------------------------------------------------- ranking
\* the mean squared held-out error over all rows of all folds (not program
\* state: kept beside every recorded call to compare the scores against)
Pooled(out, n) == RDivInt(SumSqErr(out, 1..n), n)

InitRank ==
    /\ op = "ranking" /\ pc = "for"
    /\ nrows \in 1..MaxRows
    /\ y_len \in {nrows, MaxRows}
    /\ \E n \in 0..MaxCols : feat_df = DataFrame(Columns(n), nrows)
    /\ max_num_feats_arg = NoneVal
    /\ cv \in {NoneVal} \cup {Some(k) : k \in 1..(MaxRows + 1)}
    /\ score_fn \in OptBool
    /\ find_predicted = FALSE
    /\ InitLocals

RECURSIVE Reverse(_)
Reverse(seq) == IF seq = <<>> THEN <<>> ELSE Append(Reverse(Tail(seq)), Head(seq))

\* (a result handed back in the opposite order)
RankingResult_Reversed(scores) == Reverse(scores)

\* what ranking hands back for the scores it collected
RankingResult(scores) == scores

\* one pass of the loop body: score the next column alone and append
RankingScoreFeature ==
    /\ op = "ranking" /\ pc = "for" /\ for_pos < Len(feat_df)
    /\ \E out \in TrialOutcomes(nrows, y_len, cv) :
         LET col == feat_df[for_pos + 1]
             r == score_model(Len(col[2]), y_len, cv, score_fn, FALSE, out)
         IN  /\ n_score_calls' = n_score_calls + 1
             /\ IF r.raised # "none"
                THEN /\ pc' = "failed" /\ err' = r.raised
                     /\ UNCHANGED <<feat_scores, trials, for_pos>>
                ELSE /\ feat_scores' = Append(feat_scores, AggregateScore(r.scores, score_fn))
                     /\ trials' = Append(trials, [cols |-> <<col[1]>>,
                                                  score |-> AggregateScore(r.scores, score_fn),
                                                  pooled |-> Pooled(out, nrows)])
                     /\ for_pos' = for_pos + 1
                     /\ UNCHANGED <<pc, err>>
    /\ UNCHANGED <<par_locals, pipe_locals, op, args, max_num_feats, selected_feats_df, selected_scores,
                   available_feats_df, best_score, best_feat, best_key, fcr_locals,
                   ret, log, cv_out>>

\* after the loop: feat_scores.max() is logged, then the array is returned
RankingReturn ==
    /\ op = "ranking" /\ pc = "for" /\ for_pos = Len(feat_df)
    /\ IF Len(feat_scores) = 0
       THEN /\ pc' = "failed"
            /\ err' = "ValueError: zero-size array to reduction operation maximum"
            /\ UNCHANGED ret
       ELSE /\ pc' = "done"
            /\ ret' = Some(RankingResult(feat_scores))
            /\ UNCHANGED err
    /\ UNCHANGED <<par_locals, pipe_locals, op, args, fs_locals, rank_locals, fcr_locals, log, cv_out>>

NextRank == RankingScoreFeature \/ RankingReturn
SpecRank == InitRank /\ [][NextRank]_vars

\* the exceptions cross_validate rejects a call with
InvalidFoldCount == {"ValueError: n_splits must be 2 or more",
                     "ValueError: n_splits greater than the number of samples"}
DimensionMismatch == {"ValueError: inconsistent numbers of samples"}

\* C9: score_model uses as many folds as there are samples when cv is
\* unspecified and runs for every sample count >= 2 (short of the estimator
\* itself raising while predictions are collected); for a fold count below 2
\* or above the sample count it fails with the fold count error, for features
\* and target of different lengths with the length error, and a failing call
\* returns neither scores nor predictions.
C9_FoldCountContract ==
    (op = "score_model" /\ pc # "call") =>
        /\ (pc = "done" /\ IsNone(cv)) =>
               /\ Len(Val(ret).scores["test_-RMSE"]) = nrows
               /\ Len(Val(ret).scores["test_-RMSE"]) = y_len
        /\ (IsNone(cv) /\ nrows = y_len /\ nrows >= 2) =>
               /\ err \notin InvalidFoldCount \cup DimensionMismatch
               /\ (cv_out.failed = {} \/ ~find_predicted) => pc = "done"
        /\ (nrows = y_len /\ ~IsNone(cv) /\ (Val(cv) < 2 \/ Val(cv) > nrows)) =>
               (pc = "failed" /\ err \in InvalidFoldCount)
        /\ (nrows = y_len /\ IsNone(cv) /\ nrows < 2) =>
               (pc = "failed" /\ err \in InvalidFoldCount)
        /\ nrows # y_len => (pc = "failed" /\ err \in DimensionMismatch)
        /\ pc = "failed" => ret = NoneVal
        /\ pc = "done" => err = "none"

\* leave-one-out on the largest table, done
C9_Witness ==
    /\ op = "score_model" /\ pc = "done" /\ IsNone(cv)
    /\ nrows = MaxRows /\ Len(Val(ret).scores["test_-RMSE"]) = MaxRows

\* C8 as stated: ranking returns one (feature, score) entry per input column,
\* each score from scoring that column alone, ordered by descending score.
C8_SortedDescending ==
    (op = "ranking" /\ pc = "done") =>
        /\ Len(Val(ret)) = Len(feat_df)
        /\ \A i, j \in 1..Len(Val(ret)) : i < j => ~Gt(Val(ret)[j], Val(ret)[i])

\* C8 as amended: ranking returns an array of scores alone, one per input
\* column, each from scoring that column alone, in the order of the input
\* columns; it does not sort them and returns no feature identifiers.
C8_ScoresInColumnOrder ==
    (op = "ranking" /\ pc = "done") =>
        /\ Len(Val(ret)) = Len(feat_df)
        /\ \A i \in 1..Len(feat_df) :
               /\ trials[i].cols = <<feat_df[i][1]>>
               /\ Val(ret)[i] = trials[i].score

\* a ranking returned with a later column scoring higher than an earlier one
C8_Witness ==
    /\ op = "ranking" /\ pc = "done" /\ Len(feat_df) = MaxCols
    /\ Gt(Val(ret)[MaxCols], Val(ret)[1])

\* C1: for every k-fold partition, folds of unequal sizes included, the
\* negative-RMSE score ranking derives from score_model equals -sqrt of the
\* mean of the squared held-out errors pooled over all rows of all folds.
C1_PooledNegRmse ==
    (op = "ranking" /\ IsNone(score_fn)) =>
        \A i \in 1..Len(feat_scores) :
            ~IsNaN(feat_scores[i]) => feat_scores[i] = NegSqrt(trials[i].pooled)

\* ------------------------------------------------------ forward_selection
InitFS ==
    /\ op = "forward_selection" /\ pc = "enter"
    /\ nrows = MaxRows
    /\ y_len \in {MaxRows - 1, MaxRows}
    /\ \E n \in 0..MaxCols : feat_df = DataFrame(Columns(n), nrows)
    /\ max_num_feats_arg \in {Some(m) : m \in (-1)..(MaxCols + 1)}
    /\ cv \in {NoneVal, Some(1), Some(2), Some(MaxRows + 1)}
    /\ score_fn \in OptBool
    /\ find_predicted = FALSE
    /\ InitLocals

\* df[key] = vec: a new column is appended, an existing one overwritten
SetColumn(df, key, vec) ==
    IF key \in KeySet(df)
    THEN [i \in 1..Len(df) |-> IF df[i][1] = key THEN <<key, vec>> ELSE df[i]]
    ELSE Append(df, <<key, vec>>)

\* (a pop that drops the leading column whatever the key)
PopColumn_First(df, key) == Tail(df)

\* df.pop(key)
PopColumn(df, key) == SelectSeq(df, LAMBDA c : c[1] # key)

\* (a working table that is the caller's table itself, not a copy of it)
CallerTableAfterPop_NoCopy(df, key) == PopColumn(df, key)

\* the caller's table after line 159: the pop is on the copy made on line 133
\* (available_feats_df = feat_df.copy()), so the table itself keeps its columns
CallerTableAfterPop(df, key) == df

\* (an argmax that returns the last of several maxima)
ArgMax_Last(arr) ==
    (CHOOSE i \in 1..Len(arr) :
        /\ \A j \in 1..Len(arr) : ~Gt(arr[j], arr[i])
        /\ \A j \in (i + 1)..Len(arr) : Gt(arr[i], arr[j])) - 1

\* np.argmax: the 0-based index of the first nan if there is one, else of the
\* first entry no other entry exceeds
ArgMax(arr) ==
    IF HasNaN(arr) THEN (CHOOSE i \in 1..Len(arr) :
                            IsNaN(arr[i]) /\ \A j \in 1..(i - 1) : ~IsNaN(arr[j])) - 1
    ELSE (CHOOSE i \in 1..Len(arr) :
             /\ \A j \in 1..Len(arr) : ~Gt(arr[j], arr[i])
             /\ \A j \in 1..(i - 1) : Gt(arr[i], arr[j])) - 1

\* (a loop test that runs until the count equals the limit)
LoopTest_NotEqual(n_selected, limit) == n_selected # limit

\* the loop test of line 140
LoopTest(n_selected, limit) == n_selected < limit

\* lines 129-133
FsEnter ==
    /\ op = "forward_selection" /\ pc = "enter"
    /\ max_num_feats' = IF Val(max_num_feats_arg) = 0 THEN Some(Len(feat_df))
                                                     ELSE max_num_feats_arg
    /\ selected_feats_df' = <<>>
    /\ selected_scores' = <<>>
    /\ available_feats_df' = feat_df
    /\ pc' = "while"
    /\ UNCHANGED <<par_locals, pipe_locals, op, args, best_score, best_feat, best_key, for_pos, trials,
                   n_score_calls, rank_locals, fcr_locals, ret, err, log, cv_out>>

\* lines 140-143: the loop test holds, the body starts
FsLoopBegin ==
    /\ op = "forward_selection" /\ pc = "while"
    /\ LoopTest(Len(selected_feats_df), Val(max_num_feats))
    /\ IF Len(available_feats_df) = 0
       THEN /\ pc' = "failed"
            /\ err' = "IndexError: index 0 is out of bounds for axis 0 with size 0"
            /\ UNCHANGED <<best_score, best_feat, best_key, for_pos, trials>>
       ELSE /\ best_score' = NegInf
            /\ best_feat' = <<>>
            /\ best_key' = available_feats_df[1][1]
            /\ for_pos' = 0
            /\ trials' = <<>>
            /\ pc' = "for"
            /\ UNCHANGED err
    /\ UNCHANGED <<par_locals, pipe_locals, op, args, max_num_feats, selected_feats_df, selected_scores,
                   available_feats_df, n_score_calls, rank_locals, fcr_locals,
                   ret, log, cv_out>>

\* the comparison of line 153
Better(score, best) == Gt(score, best)

\* lines 144-156: one pass of the for loop
FsTrial ==
    /\ op = "forward_selection" /\ pc = "for" /\ for_pos < Len(available_feats_df)
    /\ \E out \in TrialOutcomes(nrows, y_len, cv) :
         LET col == available_feats_df[for_pos + 1]
             test_feats_df == Append(selected_feats_df, col)
             r == score_model(Len(col[2]), y_len, cv, score_fn, FALSE, out)
             score == AggregateScore(r.scores, score_fn)
         IN  /\ n_score_calls' = n_score_calls + 1
             /\ IF r.raised # "none"
                THEN /\ pc' = "failed" /\ err' = r.raised
                     /\ UNCHANGED <<best_score, best_feat, best_key, for_pos, trials>>
                ELSE /\ IF Better(score, best_score)
                        THEN /\ best_score' = score
                             /\ best_feat' = col[2]
                             /\ best_key' = col[1]
                        ELSE UNCHANGED <<best_score, best_feat, best_key>>
                     /\ trials' = Append(trials, [cols |-> Keys(test_feats_df),
                                                  score |-> score])
                     /\ for_pos' = for_pos + 1
                     /\ UNCHANGED <<pc, err>>
    /\ UNCHANGED <<par_locals, pipe_locals, op, args, max_num_feats, selected_feats_df, selected_scores,
                   available_feats_df, rank_locals, fcr_locals, ret, log, cv_out>>

\* lines 157-159: the for loop is over
FsCommit ==
    /\ op = "forward_selection" /\ pc = "for" /\ for_pos = Len(available_feats_df)
    /\ IF Len(best_feat) # nrows
       THEN /\ pc' = "failed"
            /\ err' = "ValueError: Length of values does not match length of index"
            /\ UNCHANGED <<selected_feats_df, selected_scores, available_feats_df,
                           feat_df>>
       ELSE /\ selected_feats_df' = SetColumn(selected_feats_df, best_key, best_feat)
            /\ selected_scores' = Append(selected_scores, best_score)
            /\ available_feats_df' = PopColumn(available_feats_df, best_key)
            /\ feat_df' = CallerTableAfterPop(feat_df, best_key)
            /\ pc' = "while"
            /\ UNCHANGED err
    /\ UNCHANGED <<par_locals, pipe_locals, op, nrows, y_len, max_num_feats_arg, cv, score_fn, find_predicted,
                   max_num_feats, best_score, best_feat, best_key, for_pos,
                   trials, n_score_calls, rank_locals, fcr_locals, ret, log, cv_out>>

\* what forward_selection hands back (line 170)
FsResult(feats_df, scores, best_len) == <<feats_df, scores>>

\* lines 163-170: the loop test fails
FsReturn ==
    /\ op = "forward_selection" /\ pc = "while"
    /\ ~LoopTest(Len(selected_feats_df), Val(max_num_feats))
    /\ IF Len(selected_scores) = 0
       THEN /\ pc' = "failed"
            /\ err' = "ValueError: attempt to get argmax of an empty sequence"
            /\ UNCHANGED <<ret, log>>
       ELSE /\ pc' = "done"
            /\ log' = <<[best_score |-> selected_scores[ArgMax(selected_scores) + 1],
                         num_feats_at_best |-> ArgMax(selected_scores) + 1,
                         best_selected_feat_keys |->
                             SubSeq(Keys(selected_feats_df), 1, ArgMax(selected_scores) + 1)]>>
            /\ ret' = Some(FsResult(selected_feats_df, selected_scores,
                                    ArgMax(selected_scores) + 1))
            /\ UNCHANGED err
    /\ UNCHANGED <<par_locals, pipe_locals, op, args, fs_locals, rank_locals, fcr_locals, cv_out>>

NextFS == FsEnter \/ FsLoopBegin \/ FsTrial \/ FsCommit \/ FsReturn
SpecFS == InitFS /\ [][NextFS]_vars

InFS == op = "forward_selection"
InputKeys == KeySet(feat_df)
NoDuplicates(seq) == \A i, j \in 1..Len(seq) : i # j => seq[i] # seq[j]

\* C2: after every loop iteration of forward_selection the selected sequence
\* holds no feature twice, only input columns, selected and available are
\* disjoint and together exactly the input columns, and there is one score
\* per selected feature; at return both sequences have max_num_feats entries
\* (the full feature count when max_num_feats is 0).
C2_SelectionInvariant ==
    (InFS /\ pc # "enter") =>
        /\ NoDuplicates(Keys(selected_feats_df))
        /\ KeySet(selected_feats_df) \subseteq InputKeys
        /\ KeySet(selected_feats_df) \cap KeySet(available_feats_df) = {}
        /\ KeySet(selected_feats_df) \cup KeySet(available_feats_df) = InputKeys
        /\ Len(selected_scores) = Len(selected_feats_df)
        /\ pc = "done" =>
               LET want == IF Val(max_num_feats_arg) = 0 THEN Len(feat_df)
                                                          ELSE Val(max_num_feats_arg)
               IN  /\ Len(Val(ret)[1]) = want
                   /\ Len(Val(ret)[2]) = want

C2_Witness ==
    /\ InFS /\ pc = "done" /\ Val(max_num_feats_arg) = 0
    /\ Len(selected_feats_df) = MaxCols /\ available_feats_df = <<>>

\* the trials of one step whose score exceeds the initial best, -inf
Exceeding(t) == {i \in 1..Len(t) : Gt(t[i].score, NegInf)}
\* the first trial no other trial beats, the first trial when none exceeds -inf
ClaimedPick(t) ==
    IF Exceeding(t) = {} THEN 1
    ELSE CHOOSE i \in Exceeding(t) :
             /\ \A j \in Exceeding(t) : ~Gt(t[j].score, t[i].score)
             /\ \A j \in Exceeding(t) : j < i => Gt(t[i].score, t[j].score)
LastOf(seq) == seq[Len(seq)]

\* C3: in each step of forward_selection the feature moved to the selected
\* set is the first available feature whose trial score is maximal under the
\* strict comparison, and the score recorded is that feature's trial score,
\* for every assignment of trial scores: ties, and no score exceeding the
\* initial best, included.
C3_FirstStrictMax ==
    InFS =>
        /\ (pc = "for" /\ for_pos = Len(available_feats_df)) =>
               /\ best_key = LastOf(trials[ClaimedPick(trials)].cols)
               /\ best_score = trials[ClaimedPick(trials)].score
        /\ (pc \in {"while", "done"} /\ Len(selected_feats_df) >= 1) =>
               /\ LastOf(Keys(selected_feats_df)) = LastOf(trials[ClaimedPick(trials)].cols)
               /\ LastOf(selected_scores) = trials[ClaimedPick(trials)].score
        /\ err # "ValueError: Length of values does not match length of index"

\* the position (from 1) of the first maximum of the recorded scores
FirstMaxPos(scores) ==
    CHOOSE m \in 1..Len(scores) :
        /\ \A j \in 1..Len(scores) : ~Gt(scores[j], scores[m])
        /\ \A j \in 1..(m - 1) : scores[j] # scores[m]

\* C4 as stated: forward_selection returns the feature sequence, the score per
\* step and the best-prefix-length marker, index of the first maximum + 1.
C4_MarkerReturned ==
    (InFS /\ pc = "done") =>
        /\ Len(Val(ret)) = 3
        /\ Val(ret)[3] = FirstMaxPos(selected_scores)

\* C4 as amended: forward_selection returns the full ordered feature
\* sequence and the score per step, these two only; the best-prefix length,
\* index of the first maximum of the scores + 1, is logged and not returned.
C4_MarkerLogged ==
    (InFS /\ pc = "done") =>
        /\ Val(ret) = <<selected_feats_df, selected_scores>>
        /\ Len(log) = 1
        /\ log[1].num_feats_at_best = FirstMaxPos(selected_scores)
        /\ log[1].best_selected_feat_keys =
               SubSeq(Keys(selected_feats_df), 1, FirstMaxPos(selected_scores))

\* a run whose scores tie at the maximum, later than the first step
C4_Witness ==
    /\ InFS /\ pc = "done" /\ Len(selected_scores) = MaxCols
    /\ selected_scores[2] = selected_scores[MaxCols]
    /\ Gt(selected_scores[2], selected_scores[1])
    /\ log[1].num_feats_at_best = 2

\* the exceptions an empty table and a negative limit end in
EmptyFeatureSet == {"IndexError: index 0 is out of bounds for axis 0 with size 0",
                    "ValueError: attempt to get argmax of an empty sequence"}
InvalidMaxFeatures == {"ValueError: attempt to get argmax of an empty sequence"}

\* C10: forward_selection on a table of zero columns, or with a negative
\* max_num_feats, fails: it raises before any call of score_model and returns
\* nothing, neither an empty nor a partial selection.
C10_FailsBeforeScoring ==
    (InFS /\ (Len(feat_df) = 0 \/ Val(max_num_feats_arg) < 0)) =>
        /\ pc \in {"enter", "while", "failed"}
        /\ n_score_calls = 0
        /\ ret = NoneVal
        /\ selected_feats_df = <<>> /\ selected_scores = <<>>
        /\ pc = "while" => (Len(available_feats_df) = 0 \/ Val(max_num_feats) < 0)
        /\ pc = "failed" =>
               /\ Len(feat_df) = 0 => err \in EmptyFeatureSet
               /\ Len(feat_df) > 0 => err \in InvalidMaxFeatures

\* a table with columns and a negative limit, failed
C10_Witness ==
    /\ InFS /\ pc = "failed" /\ Len(feat_df) = MaxCols /\ Val(max_num_feats_arg) < 0
    /\ err \in InvalidMaxFeatures /\ y_len = nrows /\ cv = NoneVal

\* -------------------------------------------------------------------- fcr
\* ap.labels_ of AffinityPropagation on n features: a label 0..K-1 for every
\* feature with every label used, or -1 for every feature (no convergence)
ApLabelings(n) ==
    {l \in [1..n -> 0..(n - 1)] :
         \E K \in 1..n : {l[i] : i \in 1..n} = 0..(K - 1)}
        \cup {[i \in 1..n |-> -1]}

PermsOf(n) == {p \in [1..n -> 1..n] : \A i, j \in 1..n : i # j => p[i] # p[j]}

\* (an argsort of vals, the minus sign forgotten)
ArgSortDesc_Ascending(vals) ==
    {p \in PermsOf(Len(vals)) :
         \A i, j \in 1..Len(vals) : i < j => vals[p[i]] <= vals[p[j]]}

\* np.argsort(-vals), default kind (quicksort, not stable): any order of the
\* positions that puts the values in non-increasing order
ArgSortDesc(vals) ==
    {p \in PermsOf(Len(vals)) :
         \A i, j \in 1..Len(vals) : i < j => vals[p[i]] >= vals[p[j]]}

\* (the sorted positions used as they are, not as indices into arr)
Take_Positions(arr, idx) == idx

\* arr[idx]
Take(arr, idx) == [i \in 1..Len(idx) |-> arr[idx[i]]]

MaxOf(vals) == CHOOSE v \in {vals[i] : i \in 1..Len(vals)} :
                   \A i \in 1..Len(vals) : vals[i] <= v

\* (a slice that keeps one entry too many)
SliceTo_OneMore(arr, stop) ==
    IF IsNone(stop) THEN arr
    ELSE IF Val(stop) >= 0
         THEN SubSeq(arr, 1, IF Val(stop) + 1 < Len(arr) THEN Val(stop) + 1 ELSE Len(arr))
         ELSE SubSeq(arr, 1, Len(arr) + Val(stop))

\* arr[:stop]
SliceTo(arr, stop) ==
    IF IsNone(stop) THEN arr
    ELSE IF Val(stop) >= 0
         THEN SubSeq(arr, 1, IF Val(stop) < Len(arr) THEN Val(stop) ELSE Len(arr))
         ELSE SubSeq(arr, 1, Len(arr) + Val(stop))

\* np.nonzero(ap.labels_ == label)[0]
LabelIdx(lbls, label) == SeqOfSet({i \in 1..Len(lbls) : lbls[i] = label})

\* np.unique(ap.labels_)
Unique(lbls) == SeqOfSet({lbls[i] : i \in 1..Len(lbls)})

\* a column of zero variance
IsConstant(vec) == \A r, s \in DOMAIN vec : vec[r] = vec[s]

\* (a scaler that divides by the standard deviation as it is)
ScaleOf_NoZeroHandling(vec) == IF IsConstant(vec) THEN "zero" ELSE "std"

\* StandardScaler.fit: the scale of a column is its standard deviation, and
\* a standard deviation of zero is replaced by one
ScaleOf(vec) == IF IsConstant(vec) THEN "one" ELSE "std"

\* StandardScaler.fit_transform of one column, (x - mean) / scale: nan where
\* the scale is zero, zeros for a constant column, else the standardised values
fit_transform(vec) ==
    IF ScaleOf(vec) = "zero" THEN "nan"
    ELSE IF IsConstant(vec) THEN "zeros" ELSE "standardised"

\* sc_feat_df, column by column
ScFeat(df) == [i \in 1..Len(df) |-> fit_transform(df[i][2])]

\* dcor.distance_covariance_sqr of the members of a cluster with the target:
\* zero for a column of zeros, any value for the others
DcovChoices(df, label_idx) ==
    {d \in [1..Len(label_idx) -> 0..MaxDcov] :
         \A i \in 1..Len(label_idx) :
             ScFeat(df)[label_idx[i]] = "zeros" => d[i] = 0}

\* the tables of n columns with at most one constant column
FcrTables(n, rows) ==
    {[i \in 1..n |-> <<Columns(n)[i], IF i = c THEN ConstVec(Columns(n)[i], rows)
                                                ELSE ColVec(Columns(n)[i], rows)>>] :
         c \in 0..n}

InitFcr ==
    /\ op = "fcr" /\ pc = "enter"
    /\ nrows = MaxRows
    /\ y_len = MaxRows
    /\ \E n \in 0..MaxCols : feat_df \in FcrTables(n, nrows)
    /\ max_num_feats_arg \in {NoneVal} \cup {Some(m) : m \in (-1)..(MaxCols + 1)}
    /\ cv = NoneVal
    /\ score_fn = NoneVal
    /\ find_predicted = FALSE
    /\ InitLocals

\* lines 66-78: standardise, cluster, start the loop over the labels
FcrCluster ==
    /\ op = "fcr" /\ pc = "enter"
    /\ IF Len(feat_df) = 0
       THEN /\ pc' = "failed"
            /\ err' = "ValueError: Found array with 0 feature(s)"
            /\ UNCHANGED <<labels, selected_feats, cluster_scores, label_pos>>
       ELSE IF \E i \in 1..Len(feat_df) : ScFeat(feat_df)[i] = "nan"
       THEN /\ pc' = "failed"
            /\ err' = "ValueError: Input contains NaN"
            /\ UNCHANGED <<labels, selected_feats, cluster_scores, label_pos>>
       ELSE /\ labels' \in ApLabelings(Len(feat_df))
            /\ selected_feats' = <<>>
            /\ cluster_scores' = <<>>
            /\ label_pos' = 0
            /\ pc' = "for"
            /\ UNCHANGED err
    /\ UNCHANGED <<par_locals, pipe_locals, op, args, fs_locals, rank_locals, dy, ret, log, cv_out>>

\* (the last of the ranked members taken instead of the first)
Representative_Last(rank_label_idx) == rank_label_idx[Len(rank_label_idx)]

\* line 89: the member that represents the cluster
Representative(rank_label_idx) == rank_label_idx[1]

\* lines 79-90: one pass of the loop over np.unique(ap.labels_)
FcrLabel ==
    /\ op = "fcr" /\ pc = "for" /\ label_pos < Len(Unique(labels))
    /\ LET label == Unique(labels)[label_pos + 1]
           label_idx == LabelIdx(labels, label)
       IN  \E d \in DcovChoices(feat_df, label_idx) :
           \E order \in ArgSortDesc(d) :
               LET rank_label_idx == Take(label_idx, order)
               IN  /\ dy' = d
                   /\ selected_feats' = Append(selected_feats, Representative(rank_label_idx))
                   /\ cluster_scores' = Append(cluster_scores, MaxOf(d))
                   /\ trials' = Append(trials, [label |-> label, label_idx |-> label_idx,
                                                dy |-> d])
    /\ label_pos' = label_pos + 1
    /\ UNCHANGED <<par_locals, pipe_locals, op, pc, args, max_num_feats, selected_feats_df, selected_scores,
                   available_feats_df, best_score, best_feat, best_key, for_pos,
                   n_score_calls, rank_locals, labels, ret, err, log, cv_out>>

\* feat_df.iloc[:, idx]
ILocColumns(df, idx) == [i \in 1..Len(idx) |-> df[idx[i]]]

\* lines 92-97: order the representatives by score, truncate, return
FcrReturn ==
    /\ op = "fcr" /\ pc = "for" /\ label_pos = Len(Unique(labels))
    /\ \E rank_feat_idx \in ArgSortDesc(cluster_scores) :
         /\ selected_feats' = Take(selected_feats, rank_feat_idx)
         /\ cluster_scores' = Take(cluster_scores, rank_feat_idx)
         /\ ret' = Some(<<ILocColumns(feat_df, SliceTo(Take(selected_feats, rank_feat_idx),
                                                       max_num_feats_arg)),
                          SliceTo(Take(cluster_scores, rank_feat_idx), max_num_feats_arg)>>)
    /\ pc' = "done"
    /\ UNCHANGED <<par_locals, pipe_locals, op, args, fs_locals, rank_locals, labels, dy, label_pos, err, log, cv_out>>

NextFcr == FcrCluster \/ FcrLabel \/ FcrReturn
SpecFcr == InitFcr /\ [][NextFcr]_vars

InFcr == op = "fcr"
LabelSet == {labels[i] : i \in 1..Len(labels)}
ClusterOf(f) == labels[f]
Members(label) == {f \in 1..Len(labels) : labels[f] = label}
\* the distance covariance computed for feature f with its cluster
DcovOf(f) ==
    LET t == CHOOSE t \in 1..Len(trials) : trials[t].label = ClusterOf(f)
        k == CHOOSE k \in 1..Len(trials[t].label_idx) : trials[t].label_idx[k] = f
    IN  trials[t].dy[k]
LoopOver == pc = "done" \/ (pc = "for" /\ label_pos = Len(Unique(labels)))
MinOf(a, b) == IF a < b THEN a ELSE b

\* C5: in fcr the cluster labels partition the features (one label per
\* feature, no more clusters than features) and the untruncated selected list
\* holds exactly one representative per cluster, a member of that cluster, no
\* feature twice; a singleton cluster contributes its one member.
C5_OneRepresentativePerCluster ==
    (InFcr /\ pc \in {"for", "done"}) =>
        /\ Len(labels) = Len(feat_df)
        /\ Cardinality(LabelSet) <= Len(feat_df)
        /\ \A i \in 1..Len(selected_feats) : selected_feats[i] \in 1..Len(feat_df)
        /\ NoDuplicates(selected_feats)
        /\ pc = "for" =>
               /\ Len(selected_feats) = label_pos
               /\ \A i \in 1..Len(selected_feats) :
                      ClusterOf(selected_feats[i]) = Unique(labels)[i]
        /\ LoopOver =>
               /\ Len(selected_feats) = Cardinality(LabelSet)
               /\ \A label \in LabelSet :
                      /\ Cardinality({i \in 1..Len(selected_feats) :
                                         selected_feats[i] \in Members(label)}) = 1
                      /\ Cardinality(Members(label)) = 1 =>
                             \E i \in 1..Len(selected_feats) :
                                 {selected_feats[i]} = Members(label)

\* two clusters, one a singleton and one not, both represented
C5_Witness ==
    /\ InFcr /\ pc = "done" /\ Len(feat_df) = MaxCols
    /\ Cardinality(LabelSet) = 2 /\ Len(selected_feats) = 2
    /\ \E label \in LabelSet : Cardinality(Members(label)) = 1

\* C6 as stated: fcr returns the representatives by non-increasing score,
\* clusters of equal score in the order of their labels, and score i is the
\* score of feature i.
C6_StableDescending ==
    (InFcr /\ pc = "done") =>
        /\ \A i, j \in 1..Len(selected_feats) : i < j =>
               /\ cluster_scores[i] >= cluster_scores[j]
               /\ cluster_scores[i] = cluster_scores[j] =>
                      ClusterOf(selected_feats[i]) < ClusterOf(selected_feats[j])
        /\ \A i \in 1..Len(selected_feats) : cluster_scores[i] = DcovOf(selected_feats[i])

\* C6 as amended: fcr returns the representatives by non-increasing score and
\* score i is the score of feature i; clusters of equal score come in no
\* guaranteed order (np.argsort's default sort is not stable).
C6_Descending ==
    (InFcr /\ pc = "done") =>
        /\ \A i, j \in 1..Len(selected_feats) : i < j =>
               cluster_scores[i] >= cluster_scores[j]
        /\ \A i \in 1..Len(selected_feats) : cluster_scores[i] = DcovOf(selected_feats[i])
        /\ Len(Val(ret)[1]) = Len(Val(ret)[2])
        /\ \A i \in 1..Len(Val(ret)[1]) :
               /\ Val(ret)[1][i] = feat_df[selected_feats[i]]
               /\ Val(ret)[2][i] = cluster_scores[i]

\* representatives returned with the score falling along the list
C6_Witness ==
    /\ InFcr /\ pc = "done" /\ max_num_feats_arg = NoneVal
    /\ Len(selected_feats) = MaxCols
    /\ cluster_scores[1] > cluster_scores[MaxCols]
    /\ selected_feats[1] > selected_feats[MaxCols]

ConstantCols == {i \in 1..Len(feat_df) : IsConstant(feat_df[i][2])}

\* C11 (as amended): a zero-variance column does not make fcr fail. The
\* scaler replaces the zero standard deviation by one and the column becomes
\* a column of zeros; fcr clusters every column, the constant one included,
\* gives it a squared distance covariance of zero, ranks, and returns
\* selected features and scores.
C11_ZeroVarianceAccepted ==
    (InFcr /\ ConstantCols # {}) =>
        /\ pc # "failed" /\ err = "none"
        /\ \A i \in ConstantCols : ScFeat(feat_df)[i] = "zeros"
        /\ pc # "enter" =>
               /\ Len(labels) = Len(feat_df)
               /\ \A t \in 1..Len(trials) : \A j \in 1..Len(trials[t].label_idx) :
                      trials[t].label_idx[j] \in ConstantCols => trials[t].dy[j] = 0
        /\ pc = "done" =>
               /\ ret # NoneVal
               /\ Len(selected_feats) = Len(Unique(labels))
               /\ Len(cluster_scores) = Len(selected_feats)

\* a table with a constant column, clustered, ranked and returned, the
\* constant column the representative of its own cluster
C11_Witness ==
    /\ InFcr /\ pc = "done" /\ Len(feat_df) = MaxCols /\ ConstantCols # {}
    /\ ret # NoneVal /\ Len(Val(ret)[1]) >= 2
    /\ \E i \in 1..Len(selected_feats) : selected_feats[i] \in ConstantCols

\* C11 (as stated): with a zero-variance column fcr fails during the
\* standardisation, clusters and ranks nothing, and returns nothing.
C11_FailsFast ==
    (InFcr /\ ConstantCols # {} /\ pc # "enter") =>
        /\ pc = "failed"
        /\ labels = <<>> /\ selected_feats = <<>> /\ cluster_scores = <<>>
        /\ ret = NoneVal

\* C12: the record score_model returns always holds the per-fold negative
\* RMSE, one entry per fold; it holds the per-fold user score, over the same
\* folds, exactly when a score function was given; it holds the stacked R2,
\* and predictions come with it (one per input row, in row order), exactly
\* when find_predicted is true; otherwise there are no predictions.
C12_ScoreRecord ==
    (op = "score_model" /\ pc = "done") =>
        LET scores == Val(ret).scores
            predicted == Val(ret).predicted
            k == EffectiveCv(y_len, cv)
        IN  /\ "test_-RMSE" \in DOMAIN scores
            /\ Len(scores["test_-RMSE"]) = k
            /\ "test_user" \in DOMAIN scores <=> ~IsNone(score_fn)
            /\ "test_user" \in DOMAIN scores =>
                   /\ Len(scores["test_user"]) = k
                   /\ \A f \in 1..k : IsNaN(scores["test_user"][f])
                                         <=> IsNaN(scores["test_-RMSE"][f])
            /\ "R2_stacked" \in DOMAIN scores <=> find_predicted
            /\ ~IsNone(predicted) <=> find_predicted
            /\ find_predicted =>
                   /\ Len(Val(predicted)) = nrows
                   /\ \A r \in 1..nrows : Val(predicted)[r] = r

\* a call with a score function and find_predicted, in folds of unequal size
C12_Witness ==
    /\ op = "score_model" /\ pc = "done" /\ nrows = MaxRows /\ cv = Some(2)
    /\ ~IsNone(score_fn) /\ find_predicted
    /\ DOMAIN Val(ret).scores = {"test_-RMSE", "test_user", "R2_stacked"}
    /\ Len(Val(Val(ret).predicted)) = MaxRows

\* C15: for every cluster fcr has gone through, the representative is a
\* member of the cluster whose squared distance covariance with the target is
\* the highest among the members, and the score recorded for the cluster is
\* the distance covariance of that same representative, whatever the values.
C15_RepresentativeHasRecordedScore ==
    (InFcr /\ pc \in {"for", "done"}) =>
        /\ Len(cluster_scores) = Len(selected_feats)
        /\ \A i \in 1..Len(selected_feats) :
               LET member == selected_feats[i]
               IN  /\ member \in Members(ClusterOf(member))
                   /\ \A f \in Members(ClusterOf(member)) : DcovOf(f) <= DcovOf(member)
                   /\ cluster_scores[i] = DcovOf(member)

\* a cluster of several members with different distance covariances, the
\* representative not the first of them
C15_Witness ==
    /\ InFcr /\ pc = "done"
    /\ \E i \in 1..Len(selected_feats) :
           LET member == selected_feats[i]
           IN  /\ Cardinality(Members(ClusterOf(member))) >= 2
               /\ \E f \in Members(ClusterOf(member)) :
                      f < member /\ DcovOf(f) < DcovOf(member)
               /\ cluster_scores[i] = MaxDcov

\* C16: no step of a forward_selection run changes the caller's feature
\* table or target, whether the run goes on, returns or fails: feat_df keeps
\* its columns, their order and their values, and the target its length; only
\* the selected and available working tables change.
C16_CallerTableUntouched ==
    [][InFS => /\ feat_df' = feat_df
               /\ nrows' = nrows
               /\ y_len' = y_len]_vars

\* a run that moved every column of the table and returned, the table whole
C16_Witness ==
    /\ InFS /\ pc = "done" /\ Len(feat_df) = MaxCols
    /\ Len(selected_feats_df) = MaxCols /\ available_feats_df = <<>>
    /\ Keys(feat_df) = Columns(MaxCols)

\* the calls of score_model made by the steps that moved s features out of n
RECURSIVE CallsAfter(_, _)
CallsAfter(n, s) == IF s = 0 THEN 0 ELSE CallsAfter(n, s - 1) + (n - (s - 1))

\* C17: forward_selection ends normally for every feature count n >= 1 and
\* every max_num_feats >= 1, also one above n: every iteration adds one
\* selected feature, the loop body never starts on an empty available table,
\* and score_model is called once per feature still available at each step.
\* (Stated for calls whose row counts and fold count score_model accepts, and
\* setting aside the failure of a step whose trial scores are all nan.)
C17_TerminatesNormally ==
    (InFS /\ Len(feat_df) >= 1 /\ Val(max_num_feats_arg) >= 1
          /\ y_len = nrows /\ cv \in {NoneVal, Some(2)}) =>
        /\ pc = "failed" =>
               err = "ValueError: Length of values does not match length of index"
        /\ pc = "while" =>
               /\ Len(selected_feats_df) + Len(available_feats_df) = Len(feat_df)
               /\ n_score_calls = CallsAfter(Len(feat_df), Len(selected_feats_df))
        /\ pc = "for" => Len(available_feats_df) > 0
        /\ pc = "done" =>
               n_score_calls = CallsAfter(Len(feat_df), Len(selected_feats_df))

\* ------------------------------------- score_model, the folds in parallel
\* cross_validate(..., n_jobs=-1) of line 261: every fold is fitted and scored
\* by a task of its own, on a clone of the estimator; the tasks end in any
\* order; the scores are gathered when all of them have ended.
Pending == [rmse |-> [kind |-> "pending"], user |-> [kind |-> "pending"]]

\* (the result of a task stored where the next free entry is)
FoldSlot_ByCompletion(f, done) == Len(done) + 1

\* the entry of the gathered results that holds the result of the task of
\* fold f: the results come back in the order the tasks were submitted
FoldSlot(f, done) == f

InitPar ==
    /\ op = "cross_validate" /\ pc = "dispatch"
    /\ nrows \in 2..MaxRows
    /\ y_len = nrows
    /\ feat_df = DataFrame(Columns(1), nrows)
    /\ max_num_feats_arg = NoneVal
    /\ cv \in {NoneVal} \cup {Some(k) : k \in 2..nrows}
    /\ score_fn \in OptBool
    /\ find_predicted = FALSE
    /\ InitLocals

\* the tasks are submitted, one per fold
ParDispatch ==
    /\ op = "cross_validate" /\ pc = "dispatch"
    /\ cv_out' \in TrialOutcomes(nrows, y_len, cv)
    /\ results' = [f \in 1..EffectiveCv(y_len, cv) |-> Pending]
    /\ completed' = <<>>
    /\ pc' = "folds"
    /\ UNCHANGED <<op, args, fs_locals, rank_locals, fcr_locals, ret, err, log,
                   pipe_locals>>

\* the task of one fold ends, whichever of those still running
ParFoldDone ==
    /\ op = "cross_validate" /\ pc = "folds"
    /\ \E f \in 1..EffectiveCv(y_len, cv) :
         /\ \A i \in 1..Len(completed) : completed[i] # f
         /\ results' = [results EXCEPT ![FoldSlot(f, completed)] =
                            [rmse |-> FoldNegRmse(cv_out, nrows, EffectiveCv(y_len, cv), f),
                             user |-> FoldUser(cv_out, f)]]
         /\ completed' = Append(completed, f)
    /\ UNCHANGED <<op, pc, args, fs_locals, rank_locals, fcr_locals, ret, err, log,
                   cv_out, pipe_locals>>

\* all the tasks have ended: cross_validate returns the arrays of test scores
ParGather ==
    /\ op = "cross_validate" /\ pc = "folds"
    /\ Len(completed) = EffectiveCv(y_len, cv)
    /\ ret' = Some([scores |-> [key \in {"test_" \o s : s \in Scoring(score_fn)} |->
                                   IF key = "test_-RMSE"
                                   THEN [f \in 1..Len(results) |-> results[f].rmse]
                                   ELSE [f \in 1..Len(results) |-> results[f].user]],
                     predicted |-> NoneVal])
    /\ pc' = "gathered"
    /\ UNCHANGED <<op, args, fs_locals, rank_locals, fcr_locals, err, log, cv_out,
                   par_locals, pipe_locals>>

\* lines 148-156 of forward_selection on the record that came back
ParAggregate ==
    /\ op = "cross_validate" /\ pc = "gathered"
    /\ LET score == AggregateScore(Val(ret).scores, score_fn)
       IN  /\ IF Better(score, best_score)
              THEN best_score' = score
              ELSE UNCHANGED best_score
           /\ trials' = Append(trials, [cols |-> Keys(feat_df), score |-> score])
    /\ pc' = "done"
    /\ UNCHANGED <<op, args, max_num_feats, selected_feats_df, selected_scores,
                   available_feats_df, best_feat, best_key, for_pos, n_score_calls,
                   rank_locals, fcr_locals, ret, err, log, cv_out, par_locals,
                   pipe_locals>>

NextPar == ParDispatch \/ ParFoldDone \/ ParGather \/ ParAggregate
SpecPar == InitPar /\ [][NextPar]_vars

\* the record a call that ran the folds one after the other returns
SequentialScores ==
    score_model(nrows, y_len, cv, score_fn, FALSE, cv_out).scores

LooOutcomes(n) ==
    {[sq_err |-> [r \in 1..n |-> a[r] * a[r]], failed |-> F, user |-> [f \in 1..n |-> 0]] :
         a \in [1..n -> 0..MaxAbsErr], F \in {{}, {1}}}

\* np.abs of a '-RMSE' score of a fold of one row: the absolute error
AbsOf(x) == LET root(v) == CHOOSE a \in 0..v : a * a = v
            IN  <<root(x.q[1]), root(x.q[2])>>

\* np.abs(scores['test_-RMSE']).mean() / 1000.
LoocvRmse(arr) ==
    RDivInt(RDivInt(RSum([f \in 1..Len(arr) |-> AbsOf(arr[f])]), Len(arr)), 1000)

\* np.argmin: the 0-based index of the first entry no other entry is below
ArgMin(arr) ==
    (CHOOSE i \in 1..Len(arr) :
        /\ \A j \in 1..Len(arr) : ~RLt(arr[j], arr[i])
        /\ \A j \in 1..(i - 1) : RLt(arr[i], arr[j])) - 1

\* df.iloc[:, :stop]
ILocPrefix(df, stop) == SubSeq(df, 1, stop)

\* the state after line 82: forward_selection has returned m features and
\* their scores
InitPipe ==
    /\ op = "fit_agc_model" /\ pc = "loocv"
    /\ nrows = MaxRows
    /\ y_len = nrows
    /\ feat_df = DataFrame(Columns(MaxCols), nrows)
    /\ max_num_feats_arg = Some(25)
    /\ cv = Some(nrows)
    /\ score_fn = NoneVal
    /\ find_predicted = TRUE
    /\ max_num_feats = max_num_feats_arg
    /\ \E m \in 1..MaxCols :
         /\ selected_feats_df = DataFrame(Columns(m), nrows)
         /\ selected_scores = [i \in 1..m |-> NegSqrt(<<0, 1>>)]
         /\ available_feats_df = SubSeq(feat_df, m + 1, MaxCols)
    /\ best_score = NegInf /\ best_feat = <<>> /\ best_key = ""
    /\ for_pos = 0 /\ trials = <<>> /\ n_score_calls = 0
    /\ feat_scores = <<>>
    /\ labels = <<>> /\ dy = <<>> /\ label_pos = 0
    /\ selected_feats = <<>> /\ cluster_scores = <<>>
    /\ ret = NoneVal /\ err = "none" /\ log = <<>> /\ cv_out = NoOutcome
    /\ completed = <<>> /\ results = <<>>
    /\ selected_loocv_scores = <<>> /\ best_model_idx = NoneVal
    /\ best_multivariate_model = NoneVal

\* lines 87-93: one pass of the loop over the prefix lengths
PipeLoocv ==
    /\ op = "fit_agc_model" /\ pc = "loocv" /\ for_pos < Len(selected_scores)
    /\ \E out \in LooOutcomes(nrows) :
         LET i == for_pos + 1
             r == score_model(nrows, y_len, cv, NoneVal, TRUE, out)
         IN  /\ n_score_calls' = n_score_calls + 1
             /\ IF r.raised # "none"
                THEN /\ pc' = "failed" /\ err' = r.raised
                     /\ UNCHANGED <<selected_loocv_scores, trials, for_pos>>
                ELSE /\ selected_loocv_scores' =
                            Append(selected_loocv_scores,
                                   [R2 |-> r.scores["R2_stacked"],
                                    RMSE |-> LoocvRmse(r.scores["test_-RMSE"])])
                     /\ trials' = Append(trials, [cols |-> Keys(ILocPrefix(selected_feats_df, i)),
                                                  pooled |-> Pooled(out, nrows)])
                     /\ for_pos' = i
                     /\ UNCHANGED <<pc, err>>
    /\ UNCHANGED <<op, args, max_num_feats, selected_feats_df, selected_scores,
                   available_feats_df, best_score, best_feat, best_key,
                   rank_locals, fcr_locals, ret, log, cv_out, par_locals,
                   best_model_idx, best_multivariate_model>>

\* lines 95-96 and 141: the prefix of least 'RMSE'
PipeSelect ==
    /\ op = "fit_agc_model" /\ pc = "loocv" /\ for_pos = Len(selected_scores)
    /\ best_model_idx' =
           Some(ArgMin([i \in 1..Len(selected_loocv_scores) |->
                           selected_loocv_scores[i].RMSE]))
    /\ pc' = "select"
    /\ UNCHANGED <<op, args, fs_locals, rank_locals, fcr_locals, ret, err, log, cv_out,
                   par_locals, selected_loocv_scores, best_multivariate_model>>

\* lines 142-154: the chosen prefix is scored once more and the final model
\* is fitted on it
PipeFit ==
    /\ op = "fit_agc_model" /\ pc = "select"
    /\ \E out \in LooOutcomes(nrows) :
         LET r == score_model(nrows, y_len, cv, NoneVal, TRUE, out)
         IN  /\ n_score_calls' = n_score_calls + 1
             /\ IF r.raised # "none"
                THEN /\ pc' = "failed" /\ err' = r.raised
                     /\ UNCHANGED best_multivariate_model
                ELSE /\ best_multivariate_model' =
                            Some(Keys(ILocPrefix(selected_feats_df, Val(best_model_idx) + 1)))
                     /\ pc' = "done"
                     /\ UNCHANGED err
    /\ UNCHANGED <<op, args, max_num_feats, selected_feats_df, selected_scores,
                   available_feats_df, best_score, best_feat, best_key, for_pos, trials,
                   rank_locals, fcr_locals, ret, log, cv_out, par_locals,
                   selected_loocv_scores, best_model_idx>>

NextPipe == PipeLoocv \/ PipeSelect \/ PipeFit
SpecPipe == InitPipe /\ [][NextPipe]_vars

\* C14: in the driving pipeline every prefix length 1..m of the selected
\* sequence is scored leave-one-out, the chosen size is a prefix length whose
\* leave-one-out RMSE, the root of the mean squared error over all held-out
\* rows, is the least among all prefix lengths, and the final model is fitted
\* on exactly the features of that prefix.
C14_LeastLooRmsePrefix ==
    (op = "fit_agc_model" /\ pc \in {"select", "done"}) =>
        /\ Len(selected_loocv_scores) = Len(selected_scores)
        /\ \A i \in 1..Len(selected_scores) : trials[i].cols = Keys(ILocPrefix(selected_feats_df, i))
        /\ Val(best_model_idx) + 1 \in 1..Len(selected_scores)
        /\ \A j \in 1..Len(selected_scores) :
               ~RLt(trials[j].pooled, trials[Val(best_model_idx) + 1].pooled)
        /\ pc = "done" =>
               Val(best_multivariate_model)
                   = Keys(ILocPrefix(selected_feats_df, Val(best_model_idx) + 1))

\* ------------------------------------------------------------ all of them
Init == InitScore \/ InitRank \/ InitFS \/ InitFcr \/ InitPar \/ InitPipe
Next == NextScore \/ NextRank \/ NextFS \/ NextFcr \/ NextPar \/ NextPipe
Spec == Init /\ [][Next]_vars

====
